---- MODULE Spec2Model ----
(***************************************************************************)
(* The financial balance and late-fee subsystem of ai-employer             *)
(* (src/ai_workers/ai_property_manager/services/financial_management):     *)
(* PaymentTracker, LateFeeManager, ReminderService and ReportGenerator     *)
(* over the ledger tables Tenant, Lease, Payment, LateFee and              *)
(* PaymentReminder.                                                        *)
(*                                                                         *)
(* Money is an integer number of cents (DecimalField, 2 places); a fee     *)
(* under computation is an integer number of 1/10000 currency units        *)
(* (amount in cents times a rate in hundredths).  A date is the ordinal    *)
(* of its day, day 1 being 2025-01-01; the calendar is that of the         *)
(* non-leap years 2025 and 2026.  timezone.now() is read at day            *)
(* granularity: a reminder scheduled for midnight of day d is later than   *)
(* now exactly when d > today, and due exactly when d <= today.            *)
(*                                                                         *)
(* An operator that uses a value several times takes it as the element of  *)
(* a one-element set (TheOnly({... : x \in {e}})), so that e is computed   *)
(* once.                                                                   *)
(***************************************************************************)
EXTENDS Integers, Sequences, FiniteSets, TLC

VARIABLES today, payments, late_fees, reminders, reports, result, workers, calc

vars == <<today, payments, late_fees, reminders, reports, result, workers, calc>>

(***************************************************************************)
(* Bounds of the model.                                                    *)
(***************************************************************************)
\* Days that pass after the first one
MaxTicks == 2

\* Rows of the Payment table
MaxPayments == 3

\* Days a payment is overdue when its fee is calculated on its own
MaxDaysOverdue == 12

\* Rows of the FinancialReport table
MaxReports == 2

(***************************************************************************)
(* datetime.date                                                           *)
(***************************************************************************)
DaysInMonth(m) ==
    CASE m = 2 -> 28
      [] m \in {4, 6, 9, 11} -> 30
      [] OTHER -> 31

RECURSIVE DaysBeforeMonth(_)
DaysBeforeMonth(m) ==
    IF m <= 1 THEN 0 ELSE DaysBeforeMonth(m - 1) + DaysInMonth(m - 1)

\* The days of the year before the first of each month
DaysBefore == [m \in 1..12 |-> DaysBeforeMonth(m)]

\* date(y, m, d) raises ValueError unless d is a day of month m
ValidDate(y, m, d) == m \in 1..12 /\ d >= 1 /\ d <= DaysInMonth(m)

Ordinal(y, m, d) == (y - 2025) * 365 + DaysBefore[m] + d

Dates == 1..(2 * 365)

\* year, month and day of each date
Calendar ==
    [n \in Dates |->
        LET doy == ((n - 1) % 365) + 1
            month == CHOOSE m \in 1..12 :
                         DaysBefore[m] < doy /\ doy <= DaysBefore[m] + DaysInMonth(m)
        IN  [year |-> 2025 + ((n - 1) \div 365),
             month |-> month,
             day |-> doy - DaysBefore[month]]]

YearOf(n) == Calendar[n].year

MonthOf(n) == Calendar[n].month

DayOf(n) == Calendar[n].day

Min(a, b) == IF a <= b THEN a ELSE b

Max(a, b) == IF a >= b THEN a ELSE b

\* The element of a one-element set
TheOnly(S) == CHOOSE v \in S : TRUE

RECURSIVE SumOver(_, _)
\* Sum('amount') over a set of rows; an empty set gives 0 (the "or Decimal('0.00')")
SumOver(rows, field) ==
    IF rows = {} THEN 0
    ELSE LET r == CHOOSE x \in rows : TRUE
         IN  r[field] + SumOver(rows \ {r}, field)

(***************************************************************************)
(* The ledger rows the calculators only read: Business, Tenant, Lease.     *)
(***************************************************************************)
Businesses == {"A", "B"}

\* T3 is a tenant without a lease
TenantIds == {"T1", "T2", "T3"}

\* Tenant.business
Tenant(t) == [business |-> IF t = "T1" THEN "A" ELSE "B"]

LeaseIds == {1, 2, 3}

\* Lease rows: tenant, status, rent_due_day, monthly_rent (cents), start_date.
\* A Lease has the relation property_listing and no attribute named property.
Lease(l) ==
    CASE l = 1 -> [tenant |-> "T1", status |-> "active", rent_due_day |-> 1,
                   monthly_rent |-> 100000, start_date |-> Ordinal(2025, 1, 1)]
      [] l = 2 -> [tenant |-> "T2", status |-> "active", rent_due_day |-> 8,
                   monthly_rent |-> 200000, start_date |-> Ordinal(2025, 1, 15)]
      [] OTHER -> [tenant |-> "T1", status |-> "expired", rent_due_day |-> 31,
                   monthly_rent |-> 100000, start_date |-> Ordinal(2025, 1, 1)]

LeaseBusiness(l) == Tenant(Lease(l).tenant).business

\* Lease.objects.filter(status='active')
ActiveLeases == {l \in LeaseIds : Lease(l).status = "active"}

\* Variant of LeaseRelations: a Lease with a relation named property as well
LeaseRelationsWithProperty == {"property_listing", "tenant", "property"}

\* The relations a Lease row declares (its ForeignKey fields)
LeaseRelations == {"property_listing", "tenant"}

\* lease.property.title, read by the services for the property title: Lease
\* has no attribute named property, so the read raises AttributeError
LeasePropertyRaises == "property" \notin LeaseRelations

\* A Python dict is a function from its keys; d.get(k, default)
Get(d, k, default) == IF k \in DOMAIN d THEN d[k] ELSE default

EmptyDict == [k \in {} |-> 0]

\* An exception leaving a function
Raise(e) == [raise |-> e]

Raised(v) == "raise" \in DOMAIN v

(***************************************************************************)
(* The tables the calculators write.                                       *)
(*   payments  : sequence of Payment rows, the id of a row is its index    *)
(*   late_fees : set of LateFee rows; id = <<payment, k>>, the k-th fee    *)
(*               row recorded for that payment                             *)
(*   reminders : set of PaymentReminder rows                               *)
(*   reports   : sequence of FinancialReport rows, in the order generated  *)
(* A text field (waive_reason) is the sequence of the pieces of its text.  *)
(***************************************************************************)
PaymentIds == 1..Len(payments)

PaymentBusiness(p) == LeaseBusiness(payments[p].lease)

\* LateFee.objects.filter(payment=payment)
FeesOf(p) == {f \in late_fees : f.payment = p}

\* n / d rounded to an integer, ties to the even one (d > 0)
RoundHalfEven(n, d) ==
    LET q == n \div d
        r == n % d
    IN  IF 2 * r > d \/ (2 * r = d /\ q % 2 = 1) THEN q + 1 ELSE q

(***************************************************************************)
(* PaymentTracker                                                          *)
(***************************************************************************)
\* Variant of _calculate_due_date: the payment is due the day it is made
DueOnPaymentDate(l, payment_date) == payment_date

\* date(year, month, rent_due_day), clamped to the last day of the month
_calculate_due_date(l, payment_date) ==
    LET year == YearOf(payment_date)
        month == MonthOf(payment_date)
        rent_due_day == Lease(l).rent_due_day
    IN  IF ValidDate(year, month, rent_due_day)
        THEN Ordinal(year, month, rent_due_day)
        ELSE Ordinal(year, month, Min(rent_due_day, DaysInMonth(month)))

\* Variant of MonthsElapsed: the month counts from the day after the rent due day
MonthsElapsedAfterDueDay(now, start_date, rent_due_day) ==
    LET months == (YearOf(now) - YearOf(start_date)) * 12
                  + (MonthOf(now) - MonthOf(start_date))
    IN  Max(0, IF DayOf(now) > rent_due_day THEN months + 1 ELSE months)

\* months between the two dates by year and month, one more from the rent
\* due day of the current month on, never below 0
MonthsElapsed(now, start_date, rent_due_day) ==
    LET months == (YearOf(now) - YearOf(start_date)) * 12
                  + (MonthOf(now) - MonthOf(start_date))
    IN  Max(0, IF DayOf(now) >= rent_due_day THEN months + 1 ELSE months)

_calculate_months_elapsed(l) ==
    MonthsElapsed(today, Lease(l).start_date, Lease(l).rent_due_day)

\* The totals of lines 309-321
LeaseTotals(l) ==
    LET fees == {f \in late_fees : payments[f.payment].lease = l /\ f.status = "applied"}
        paid == {p \in PaymentIds : payments[p].lease = l /\ payments[p].status = "completed"}
        payments_made == SumOver({[id |-> p, amount |-> payments[p].amount] : p \in paid}, "amount")
        late_fees_total == SumOver(fees, "amount")
        months_elapsed == _calculate_months_elapsed(l)
        expected_rent == Lease(l).monthly_rent * months_elapsed
        total_owed == expected_rent + late_fees_total
    IN  [lease_id |-> l,
         monthly_rent |-> Lease(l).monthly_rent,
         months_elapsed |-> months_elapsed,
         expected_rent |-> expected_rent,
         payments_made |-> payments_made,
         late_fees |-> late_fees_total,
         total_owed |-> total_owed,
         outstanding_balance |-> total_owed - payments_made,
         is_current |-> total_owed - payments_made <= 0]

\* The result dict is built with 'property': lease.property.title
_calculate_lease_balance(l) ==
    IF LeasePropertyRaises THEN Raise("AttributeError") ELSE LeaseTotals(l)

_determine_payment_status(balance_data) ==
    IF balance_data.outstanding_amount <= 0 THEN "current"
    ELSE IF balance_data.late_fees > 0 THEN "overdue_with_fees"
    ELSE "overdue"

\* tenant_id outside TenantIds: Tenant.DoesNotExist.  An exception raised for
\* one lease leaves the loop and becomes the failure dict.
calculate_tenant_balance(t) ==
    IF t \notin TenantIds
    THEN [success |-> FALSE, error |-> "Tenant not found"]
    ELSE LET active_leases == {l \in ActiveLeases : Lease(l).tenant = t}
         IN  IF \E l \in active_leases : Raised(_calculate_lease_balance(l))
             THEN [success |-> FALSE, error |-> "Balance calculation failed"]
             ELSE TheOnly({
                 TheOnly({[total_balance |-> data.total_balance,
                           monthly_rent |-> data.monthly_rent,
                           late_fees |-> data.late_fees,
                           payments_made |-> data.payments_made,
                           outstanding_amount |-> data.outstanding_amount,
                           payment_status |-> _determine_payment_status(data),
                           leases |-> bal] :
                     data \in {[total_balance |-> SumOver(bal, "total_owed"),
                                monthly_rent |-> SumOver(bal, "monthly_rent"),
                                late_fees |-> SumOver(bal, "late_fees"),
                                payments_made |-> SumOver(bal, "payments_made"),
                                outstanding_amount |-> SumOver(bal, "outstanding_balance")]}}) :
                 bal \in {{_calculate_lease_balance(l) : l \in active_leases}}})

\* The payments of the tenant in the window.  The loop over them reads
\* payment.lease.property.title for the first row, which raises; with no row
\* in the window the summary has zero counts and reliability_score 0.0.
get_payment_history(t, months_back) ==
    LET cutoff_date == today - months_back * 30
        rows == {p \in PaymentIds : /\ Lease(payments[p].lease).tenant = t
                                    /\ payments[p].payment_date >= cutoff_date}
    IN  IF rows # {} /\ LeasePropertyRaises
        THEN [success |-> FALSE, error |-> "Payment history retrieval failed"]
        ELSE LET late == {p \in rows : payments[p].payment_date > payments[p].due_date}
                 on_time == rows \ late
             IN  [total_payments |-> Cardinality(rows),
                  on_time_payments |-> Cardinality(on_time),
                  late_payments |-> Cardinality(late),
                  reliability_score |->
                      IF rows = {} THEN 0
                      ELSE (Cardinality(on_time) * 100) \div Cardinality(rows)]

(***************************************************************************)
(* ReportGenerator                                                         *)
(***************************************************************************)
\* Payment.objects.filter(due_date__range=[start_date, end_date])
PaymentsDue(start_date, end_date) ==
    {p \in PaymentIds : start_date <= payments[p].due_date /\ payments[p].due_date <= end_date}

\* all_payments.filter(status='completed')
Completed(ids) == {p \in ids : payments[p].status = "completed"}

\* aggregate(Sum('amount'))['amount__sum'] or Decimal('0.00')
TotalAmount(ids) == SumOver({[id |-> p, amount |-> payments[p].amount] : p \in ids}, "amount")

\* Variant of _calculate_collection_rate: what is due, as a share of what was collected
CollectionRateInverted(all_payments, completed_payments) ==
    LET total_due == TotalAmount(all_payments)
        total_collected == TotalAmount(completed_payments)
    IN  IF total_collected > 0
        THEN RoundHalfEven(total_due * 100 * 100, total_collected)
        ELSE 0

\* round(float(total_collected / total_due * 100), 2), in hundredths of a percent
_calculate_collection_rate(all_payments, completed_payments) ==
    LET total_due == TotalAmount(all_payments)
        total_collected == TotalAmount(completed_payments)
    IN  IF total_due > 0
        THEN RoundHalfEven(total_collected * 100 * 100, total_due)
        ELSE 0

(***************************************************************************)
(* LateFeeManager                                                          *)
(***************************************************************************)
\* self.default_rules: money in cents, rates in hundredths
default_rules ==
    [grace_period_days |-> 5,
     flat_fee |-> 5000,
     percentage_fee |-> 5,
     daily_fee |-> 500,
     max_fee_percentage |-> 20,
     use_flat_fee |-> TRUE,
     compound_daily |-> FALSE]

\* {**self.default_rules, **(custom_rules or {})}
MergeRules(custom_rules) ==
    [k \in DOMAIN default_rules |->
        IF k \in DOMAIN custom_rules THEN custom_rules[k] ELSE default_rules[k]]

\* "not custom_rules": None and the empty dict are both falsy
NoCustomRules(custom_rules) == DOMAIN custom_rules = {}

\* Variant of WithinGrace: the last day of the grace period is charged
WithinGraceExclusive(days_overdue, rules, custom_rules) ==
    days_overdue < rules.grace_period_days /\ NoCustomRules(custom_rules)

\* The grace-period test of line 128
WithinGrace(days_overdue, rules, custom_rules) ==
    days_overdue <= rules.grace_period_days /\ NoCustomRules(custom_rules)

\* Variant of ApplyCap: the limit is reported and not applied
ApplyCapUnbounded(total_fee, max_fee) ==
    [fee |-> total_fee, capped |-> total_fee > max_fee]

\* The cap of lines 151-156: (fee, capped)
ApplyCap(total_fee, max_fee) ==
    IF total_fee > max_fee
    THEN [fee |-> max_fee, capped |-> TRUE]
    ELSE [fee |-> total_fee, capped |-> FALSE]

\* Fees are in 1/10000 currency units.  The grace-period result carries no
\* 'success' key.
calculate_late_fee(payment_id, custom_rules) ==
    IF payment_id \notin PaymentIds
    THEN [success |-> FALSE, error |-> "Payment not found"]
    ELSE
    LET payment == payments[payment_id]
        rules == MergeRules(custom_rules)
        days_overdue == today - payment.due_date
    IN  IF days_overdue <= 0
        THEN [success |-> FALSE, error |-> "Payment is not overdue"]
        ELSE IF WithinGrace(days_overdue, rules, custom_rules)
        THEN [fee_amount |-> 0,
              reason |-> "Within grace period",
              days_overdue |-> days_overdue,
              applicable |-> FALSE]
        ELSE
        LET base_fee == IF rules.use_flat_fee
                        THEN rules.flat_fee * 100
                        ELSE payment.amount * rules.percentage_fee
            daily_fees == IF rules.compound_daily /\ days_overdue > rules.grace_period_days
                          THEN rules.daily_fee * 100 * (days_overdue - rules.grace_period_days)
                          ELSE 0
            max_fee == payment.amount * rules.max_fee_percentage
            cap == ApplyCap(base_fee + daily_fees, max_fee)
        IN  [success |-> TRUE,
             fee_amount |-> cap.fee,
             base_fee |-> base_fee,
             daily_fees |-> daily_fees,
             days_overdue |-> days_overdue,
             grace_period_expired |-> days_overdue > rules.grace_period_days,
             capped_at_maximum |-> cap.capped,
             max_fee_limit |-> max_fee,
             applicable |-> TRUE]

\* (should_waive, waive_reason)
_check_auto_waiver_conditions(payment_id, tenant) ==
    LET payment_history == get_payment_history(tenant, 12)
        reliability_score == Get(payment_history, "reliability_score", 0)
        late_payments == Get(payment_history, "late_payments", 0)
        days_overdue == today - payments[payment_id].due_date
    IN  IF reliability_score > 95
        THEN <<TRUE, <<"Excellent payment history - courtesy waiver">>>>
        ELSE IF late_payments <= 1
        THEN <<TRUE, <<"First late payment in 12 months - courtesy waiver">>>>
        ELSE IF days_overdue <= 3 /\ reliability_score > 85
        THEN <<TRUE, <<"Minor delay with good payment history">>>>
        ELSE <<FALSE, <<>>>>

\* DecimalField(decimal_places=2): a fee in 1/10000 units is stored in cents,
\* rounded half to even
ToCents(fee) == RoundHalfEven(fee, 100)

\* Payment.objects.filter(lease=lease, status='pending', due_date__lt=today)
OverduePayments(l) ==
    {p \in PaymentIds : /\ payments[p].lease = l
                        /\ payments[p].status = "pending"
                        /\ payments[p].due_date < today}

\* Variant of ExistingFee: the row of an earlier run is not looked up
ExistingFeeUnchecked(p) == FALSE

\* existing_fee = LateFee.objects.filter(payment=payment).first()
ExistingFee(p) == FeesOf(p) # {}

\* The LateFee row LateFee.objects.create records for payment p, given the
\* rows fees already in the table
NewLateFee(p, fees) ==
    LET fee_calc == calculate_late_fee(p, EmptyDict)
        waiver == _check_auto_waiver_conditions(p, Lease(payments[p].lease).tenant)
    IN  [id |-> <<p, Cardinality({f \in fees : f.payment = p}) + 1>>,
         payment |-> p,
         amount |-> ToCents(fee_calc.fee_amount),
         days_overdue |-> fee_calc.days_overdue,
         status |-> IF waiver[1] THEN "waived" ELSE "applied",
         waive_reason |-> waiver[2]]

\* fee_calc.get('success') and fee_calc.get('applicable')
FeeApplies(p) ==
    LET fee_calc == calculate_late_fee(p, EmptyDict)
    IN  Get(fee_calc, "success", FALSE) /\ Get(fee_calc, "applicable", FALSE)

\* Variant of FeePayments: force_apply charges a payment again
FeePaymentsForced(l, force_apply) ==
    {p \in OverduePayments(l) : (force_apply \/ ~ExistingFee(p)) /\ FeeApplies(p)}

\* The payments of lease l that one run of _process_lease_late_fees gives a
\* LateFee: overdue, pending, without a LateFee row, and with an applicable
\* fee.  force_apply is a parameter the body never reads.
FeePayments(l, force_apply) ==
    {p \in OverduePayments(l) : ~ExistingFee(p) /\ FeeApplies(p)}

\* Variant of LeasesToProcess: the lease_id argument is not looked at
LeasesToProcessAll(lease_id) == ActiveLeases

\* The leases one call of apply_late_fees walks (lease_id = 0: none given)
LeasesToProcess(lease_id) ==
    IF lease_id # 0 THEN {l \in ActiveLeases : l = lease_id} ELSE ActiveLeases

\* Variant of AlreadyWaived: a waived fee is waived again
AlreadyWaivedIgnored(late_fee) == FALSE

\* late_fee.status == 'waived'
AlreadyWaived(late_fee) == late_fee.status = "waived"

\* Variant of Waived: the amount of the fee is written off with the waiver
WaivedWrittenOff(late_fee, reason, waived_by) ==
    [late_fee EXCEPT !.status = "waived",
                     !.amount = 0,
                     !.waive_reason = <<reason, " (Waived by: ", waived_by, ")">>]

\* The row late_fee.save() writes: f"{reason} (Waived by: {waived_by})"
Waived(late_fee, reason, waived_by) ==
    [late_fee EXCEPT !.status = "waived",
                     !.waive_reason = <<reason, " (Waived by: ", waived_by, ")">>]

(***************************************************************************)
(* ReminderService                                                         *)
(***************************************************************************)
\* self.reminder_schedule without 'overdue_reminder': days before the due date
ReminderOffsets == {7, 3, 1}

\* today.replace(day=rent_due_day) raises ValueError when the current month
\* has no such day: the date is then taken in the next month, and clamped there
NextDueDate(now, rent_due_day) ==
    LET y == YearOf(now)
        m == MonthOf(now)
        ny == IF m = 12 THEN y + 1 ELSE y
        nm == IF m = 12 THEN 1 ELSE m + 1
        last_day == DayOf(Ordinal(ny, (nm % 12) + 1, 1) - 1)
    IN  IF ValidDate(y, m, rent_due_day) /\ now <= Ordinal(y, m, rent_due_day)
        THEN Ordinal(y, m, rent_due_day)
        ELSE IF ValidDate(ny, nm, rent_due_day)
        THEN Ordinal(ny, nm, rent_due_day)
        ELSE Ordinal(ny, nm, Min(rent_due_day, last_day))

_calculate_next_due_date(l) == NextDueDate(today, Lease(l).rent_due_day)

\* The row get_or_create records when none matches (its defaults)
UpcomingPayment(l, due_date) ==
    [lease |-> l,
     amount |-> Lease(l).monthly_rent,
     payment_type |-> "rent",
     payment_date |-> due_date,
     due_date |-> due_date,
     status |-> "pending"]

\* The rows Payment.objects.get_or_create(lease, due_date, payment_type='rent') matches
UpcomingMatches(rows, l, due_date) ==
    {p \in 1..Len(rows) : /\ rows[p].lease = l
                          /\ rows[p].due_date = due_date
                          /\ rows[p].payment_type = "rent"}

\* Variant of GetOrCreateUpcoming: update_or_create, the matched row is set to the defaults
UpdateOrCreateUpcoming(rows, l, due_date, matches) ==
    IF matches = {}
    THEN [payments |-> Append(rows, UpcomingPayment(l, due_date)), id |-> Len(rows) + 1]
    ELSE [payments |-> [rows EXCEPT ![TheOnly(matches)] = UpcomingPayment(l, due_date)],
          id |-> TheOnly(matches)]

\* get_or_create with at most one match: the table afterwards, the row's id
GetOrCreateUpcoming(rows, l, due_date, matches) ==
    IF matches = {}
    THEN [payments |-> Append(rows, UpcomingPayment(l, due_date)), id |-> Len(rows) + 1]
    ELSE [payments |-> rows, id |-> TheOnly(matches)]

\* Variant of FutureOffsets: a reminder dated today is scheduled as well
FutureOffsetsFromToday(due_date) == {d \in ReminderOffsets : due_date - d >= today}

\* The offsets whose reminder date is later than now (scheduled_date > timezone.now())
FutureOffsets(due_date) == {d \in ReminderOffsets : due_date - d > today}

NextReminderId(rows) ==
    IF rows = {} THEN 1
    ELSE (CHOOSE i \in {r.id : r \in rows} : \A j \in {r.id : r \in rows} : j <= i) + 1

RECURSIVE CreateReminders(_, _, _, _)
\* One PaymentReminder.objects.create per offset, in the order 7, 3, 1
CreateReminders(rows, payment_id, due_date, offsets) ==
    IF offsets = {} THEN rows
    ELSE LET d == CHOOSE x \in offsets : \A z \in offsets : z <= x
         IN  TheOnly({CreateReminders(rows \cup {r}, payment_id, due_date, offsets \ {d}) :
                         r \in {[id |-> NextReminderId(rows),
                                 payment |-> payment_id,
                                 reminder_type |-> "upcoming",
                                 scheduled_date |-> due_date - d,
                                 status |-> "pending",
                                 sent_date |-> 0]}})

\* _schedule_lease_reminders on the tables db = [payments, reminders]: the
\* tables afterwards and the per-lease result.  get_or_create raises
\* MultipleObjectsReturned when two rows match, before anything is written.
\* The first create evaluates _generate_subject, which reads
\* payment.lease.property.title: the exception leaves the loop after the
\* payment was recorded and the pending reminders were deleted.
_schedule_lease_reminders(db, l) ==
    TheOnly({
        (LET matches == UpcomingMatches(db.payments, l, next_due_date)
             future == FutureOffsets(next_due_date)
         IN  IF Cardinality(matches) > 1
             THEN [db |-> db, success |-> FALSE, reminders_scheduled |-> 0]
             ELSE TheOnly({
                 (LET kept == {r \in db.reminders :
                                  ~(r.payment = upcoming.id /\ r.status = "pending")}
                  IN  IF future # {} /\ LeasePropertyRaises
                      THEN [db |-> [payments |-> upcoming.payments, reminders |-> kept],
                            success |-> FALSE, reminders_scheduled |-> 0]
                      ELSE [db |-> [payments |-> upcoming.payments,
                                    reminders |-> CreateReminders(kept, upcoming.id,
                                                                  next_due_date, future)],
                            success |-> TRUE, reminders_scheduled |-> Cardinality(future)]) :
                 upcoming \in {GetOrCreateUpcoming(db.payments, l, next_due_date, matches)}})) :
        next_due_date \in {_calculate_next_due_date(l)}})

\* One turn of the loop of schedule_payment_reminders: the tables, the leases
\* scheduled with success and the count of reminders so far
ScheduleStep(acc, l) ==
    TheOnly({[db |-> one.db,
              ok |-> IF one.success THEN acc.ok \cup {l} ELSE acc.ok,
              scheduled |-> acc.scheduled + one.reminders_scheduled] :
             one \in {_schedule_lease_reminders(acc.db, l)}})

RECURSIVE ScheduleLeases(_, _)
\* The loop over the leases, by ascending id
ScheduleLeases(acc, leases) ==
    IF leases = {} THEN acc
    ELSE LET l == CHOOSE x \in leases : \A z \in leases : x <= z
         IN  TheOnly({ScheduleLeases(next, leases \ {l}) : next \in {ScheduleStep(acc, l)}})

\* PaymentReminder.objects.filter(status='pending', scheduled_date__lte=now)
DueReminders == {r \in reminders : r.status = "pending" /\ r.scheduled_date <= today}

(***************************************************************************)
(* The ledger at the start: rows recorded before the first operation.      *)
(***************************************************************************)
FirstDay == Ordinal(2025, 2, 5)

LastDay == FirstDay + MaxTicks

\* Lease 1's rent of February, and lease 2's of January or of February
SeedPayments ==
    {<<UpcomingPayment(1, Ordinal(2025, 2, 1)), UpcomingPayment(2, d)>> :
        d \in {Ordinal(2025, 1, 8), Ordinal(2025, 2, 8)}}

\* At most one LateFee row, on payment 1, in any status
SeedFees ==
    {{}} \cup
    {{[id |-> <<1, 1>>, payment |-> 1, amount |-> 5000, days_overdue |-> 6,
       status |-> st, waive_reason |-> <<>>]} : st \in {"pending", "applied", "waived"}}

\* At most one PaymentReminder row, on payment 2, for the day before it is due
SeedReminders(rows) ==
    {{}} \cup
    {{[id |-> 1, payment |-> 2, reminder_type |-> "upcoming",
       scheduled_date |-> rows[2].due_date - 1, status |-> st,
       sent_date |-> 0]} : st \in {"pending", "sent"}}

NoWorkers == [w \in {} |-> 0]

NoResult == [op |-> "none"]

Init ==
    /\ today = FirstDay
    /\ payments \in SeedPayments
    /\ late_fees \in SeedFees
    /\ reminders \in SeedReminders(payments)
    /\ result = NoResult
    /\ workers = NoWorkers
    /\ calc = NoResult
    /\ reports = <<>>

(***************************************************************************)
(* The operations, each one whole request.  caller is the business the     *)
(* calculator was made for; no calculator reads it.  result is what the    *)
(* last request returned, with the rows it touched.                        *)
(***************************************************************************)
\* timezone.now() advances by a day between two requests
Tick ==
    /\ today < LastDay
    /\ today' = today + 1
    /\ result' = NoResult
    /\ UNCHANGED <<payments, late_fees, reminders, workers, calc, reports>>

AmountArgs == {100000}

\* Variant of PaymentCreate: a pending row of the same lease and due date is
\* overwritten by the payment
PaymentSettle(rows, row) ==
    LET open == {p \in 1..Len(rows) : /\ rows[p].lease = row.lease
                                      /\ rows[p].due_date = row.due_date
                                      /\ rows[p].status = "pending"}
    IN  IF open = {} THEN Append(rows, row)
        ELSE [rows EXCEPT ![CHOOSE p \in open : TRUE] = row]

\* Payment.objects.create: a new row, whatever rows the table holds
PaymentCreate(rows, row) == Append(rows, row)

track_payment(caller, lease_id, amount) ==
    /\ Len(payments) < MaxPayments
    /\ UNCHANGED <<today, late_fees, reminders, workers, calc, reports>>
    /\ IF lease_id \notin LeaseIds
       THEN /\ result' = [op |-> "track_payment", success |-> FALSE,
                          lease_id |-> lease_id, amount |-> amount,
                          error |-> "Lease not found"]
            /\ UNCHANGED payments
       ELSE /\ payments' = PaymentCreate(payments,
                                  [lease |-> lease_id,
                                   amount |-> amount,
                                   payment_type |-> "rent",
                                   payment_date |-> today,
                                   due_date |-> _calculate_due_date(lease_id, today),
                                   status |-> "completed"])
            /\ result' = [op |-> "track_payment", success |-> TRUE,
                          lease_id |-> lease_id, amount |-> amount,
                          payment_id |-> Len(payments) + 1,
                          foreign |-> LeaseBusiness(lease_id) # caller,
                          balance_info |-> calculate_tenant_balance(Lease(lease_id).tenant)']

\* One call, all its leases and payments: the loop bodies touch distinct
\* payments, so the rows they record do not depend on the order.
\*   walked  : the overdue pending payments the call went through
\*   again   : those of them the call just before, also apply_late_fees,
\*             had gone through
\*   created : the payments given a LateFee by this call
\*   foreign : the payments among created of another business than the caller's
apply_late_fees(caller, lease_id, force_apply) ==
    \E leases \in {LeasesToProcess(lease_id)} :
    \E walked \in {UNION {OverduePayments(l) : l \in leases}} :
    \E created \in {UNION {FeePayments(l, force_apply) : l \in leases}} :
    \E rows \in {{NewLateFee(p, late_fees) : p \in created}} :
        /\ late_fees' = late_fees \cup rows
        /\ result' = [op |-> "apply_late_fees", success |-> TRUE,
                      lease_id |-> lease_id,
                      force_apply |-> force_apply,
                      processed_leases |-> Cardinality(leases),
                      walked |-> walked,
                      again |-> IF result.op = "apply_late_fees"
                                THEN walked \cap result.walked
                                ELSE {},
                      created |-> created,
                      foreign |-> {p \in created : PaymentBusiness(p) # caller},
                      fees_applied |-> Cardinality({f \in rows : f.status = "applied"}),
                      fees_waived |-> Cardinality({f \in rows : f.status = "waived"})]
        /\ UNCHANGED <<today, payments, reminders, workers, calc, reports>>

\*   was : the status of the row before the call ("" when there is no row)
waive_late_fee(caller, late_fee_id, reason, waived_by) ==
    /\ UNCHANGED <<today, payments, reminders, workers, calc, reports>>
    /\ IF late_fee_id \notin {f.id : f \in late_fees}
       THEN /\ result' = [op |-> "waive_late_fee", success |-> FALSE,
                          late_fee_id |-> late_fee_id, was |-> "",
                          error |-> "Late fee not found"]
            /\ UNCHANGED late_fees
       ELSE \E late_fee \in {f \in late_fees : f.id = late_fee_id} :
                IF AlreadyWaived(late_fee)
                THEN /\ result' = [op |-> "waive_late_fee", success |-> FALSE,
                                   late_fee_id |-> late_fee_id, was |-> late_fee.status,
                                   error |-> "Late fee already waived"]
                     /\ UNCHANGED late_fees
                ELSE /\ late_fees' = (late_fees \ {late_fee})
                                     \cup {Waived(late_fee, reason, waived_by)}
                     /\ result' = [op |-> "waive_late_fee", success |-> TRUE,
                                   late_fee_id |-> late_fee_id, was |-> late_fee.status,
                                   reason |-> reason]

\*   ok      : the leases scheduled with success
\*   created : the PaymentReminder rows this call recorded
schedule_payment_reminders(caller, lease_id) ==
    \E leases \in {LeasesToProcess(lease_id)} :
    \E run \in {ScheduleLeases([db |-> [payments |-> payments, reminders |-> reminders],
                                ok |-> {}, scheduled |-> 0], leases)} :
        /\ Len(run.db.payments) <= MaxPayments
        /\ payments' = run.db.payments
        /\ reminders' = run.db.reminders
        /\ result' = [op |-> "schedule_payment_reminders", success |-> TRUE,
                      lease_id |-> lease_id,
                      total_leases |-> Cardinality(leases),
                      ok |-> run.ok,
                      reminders_scheduled |-> run.scheduled,
                      created |-> run.db.reminders \ reminders]
        /\ UNCHANGED <<today, late_fees, workers, calc, reports>>

\* The query selects 'payment__lease__property', a relation Lease does not
\* have: evaluating it raises FieldError, caught as the failure result.  With
\* the relation, each due reminder is sent or, its e-mail failing, marked failed.
send_due_reminders(caller) ==
    /\ UNCHANGED <<today, payments, late_fees, workers, calc, reports>>
    /\ IF "property" \notin LeaseRelations
       THEN /\ result' = [op |-> "send_due_reminders", success |-> FALSE,
                          error |-> "Sending reminders failed"]
            /\ UNCHANGED reminders
       ELSE \E sent \in SUBSET DueReminders :
                /\ reminders' = (reminders \ DueReminders)
                       \cup {[r EXCEPT !.status = "sent", !.sent_date = today] : r \in sent}
                       \cup {[r EXCEPT !.status = "failed"] : r \in DueReminders \ sent}
                /\ result' = [op |-> "send_due_reminders", success |-> TRUE,
                              reminders_sent |-> Cardinality(sent),
                              reminders_failed |-> Cardinality(DueReminders \ sent)]

Next ==
    \/ Tick
    \/ \E c \in Businesses, l \in LeaseIds \cup {9}, a \in AmountArgs : track_payment(c, l, a)
    \/ \E c \in Businesses, l \in LeaseIds \cup {0}, f \in BOOLEAN : apply_late_fees(c, l, f)
    \/ \E c \in Businesses, i \in {f.id : f \in late_fees} \cup {<<0, 0>>} :
          waive_late_fee(c, i, "goodwill", "manager")
    \/ \E c \in Businesses, l \in LeaseIds \cup {0} : schedule_payment_reminders(c, l)
    \/ \E c \in Businesses : send_due_reminders(c)

Spec == Init /\ [][Next]_vars

(***************************************************************************)
(* Properties of the operations taken one after the other (Spec).          *)
(***************************************************************************)
\* The payment is past the default grace period today
PastGrace(p) == today - payments[p].due_date > default_rules.grace_period_days

\* C1: in every state reached by a non-interleaved sequence of the financial
\* operations, each Payment has at most one LateFee row.
C1_AtMostOneLateFee == \A p \in PaymentIds : Cardinality(FeesOf(p)) <= 1

\* apply_late_fees has just recorded a LateFee, the only one of its payment
C1_Witness ==
    /\ result.op = "apply_late_fees"
    /\ \E p \in result.created : Cardinality(FeesOf(p)) = 1

C4_NoForeignRows ==
    /\ result.op = "apply_late_fees" => result.foreign = {}
    /\ (result.op = "track_payment" /\ result.success) => ~result.foreign

\* The late fees of lease l that are applied and not waived
AppliedFees(l) ==
    {f \in late_fees : payments[f.payment].lease = l /\ f.status = "applied"}

\* The completed payments of lease l
CompletedPayments(l) ==
    {[id |-> p, amount |-> payments[p].amount] :
        p \in {q \in PaymentIds : payments[q].lease = l /\ payments[q].status = "completed"}}

\* C5 as stated: the Balance Calculator computes, for every active lease, a
\* balance with outstanding_balance + sum(completed payments) =
\* expected_rent + sum(applied late fees).
C5_BalanceConservation ==
    \A l \in ActiveLeases :
        LET balance == _calculate_lease_balance(l)
        IN  /\ ~Raised(balance)
            /\ balance.outstanding_balance + SumOver(CompletedPayments(l), "amount")
                   = balance.expected_rent + SumOver(AppliedFees(l), "amount")

C10_WaiveLateFee ==
    [][result'.op = "waive_late_fee" =>
          LET before == {f \in late_fees : f.id = result'.late_fee_id}
          IN  /\ UNCHANGED <<payments, reminders, reports>>
              /\ before = {} =>
                    /\ ~result'.success
                    /\ result'.error = "Late fee not found"
                    /\ UNCHANGED late_fees
              /\ \A f \in before :
                    IF f.status = "waived"
                    THEN /\ ~result'.success
                         /\ result'.error = "Late fee already waived"
                         /\ UNCHANGED late_fees
                    ELSE /\ result'.success
                         /\ \E g \in late_fees' :
                               /\ late_fees' = (late_fees \ {f}) \cup {g}
                               /\ g.status = "waived"
                               /\ g.waive_reason[1] = result'.reason
                               /\ [g EXCEPT !.status = f.status,
                                            !.waive_reason = f.waive_reason] = f]_vars

\* An applied LateFee has just been waived
C10_Witness ==
    /\ result.op = "waive_late_fee"
    /\ result.success
    /\ result.was = "applied"
    /\ \E f \in late_fees : f.id = result.late_fee_id /\ f.status = "waived"

(***************************************************************************)
(* apply_late_fees run by two workers at once (SpecRace).  A worker is at  *)
(*   idle    : between two calls                                           *)
(*   lease   : in the loop over the leases                                 *)
(*   payment : in the loop over the overdue payments of a lease            *)
(*   create  : past the check for an existing fee, about to record one     *)
(* The database serves one query at a time; no transaction or lock spans   *)
(* the check and the create.                                               *)
(***************************************************************************)
Workers == {"w1", "w2"}

Idle == [pc |-> "idle", leases |-> {}, overdue |-> {}, payment |-> 0]

InitRace ==
    /\ today = LastDay
    /\ payments \in SeedPayments
    /\ late_fees \in SeedFees
    /\ reminders = {}
    /\ result = NoResult
    /\ workers = [w \in Workers |-> Idle]
    /\ calc = NoResult
    /\ reports = <<>>

\* apply_late_fees is entered: the leases to walk are selected
apply_begin(w, lease_id, force_apply) ==
    /\ workers[w].pc = "idle"
    /\ workers' = [workers EXCEPT ![w] = [Idle EXCEPT !.pc = "lease",
                                                      !.leases = LeasesToProcess(lease_id)]]
    /\ UNCHANGED <<today, payments, late_fees, reminders, result, calc, reports>>

\* The next lease: its overdue pending payments are selected; after the last
\* lease the call returns
next_lease(w) ==
    /\ workers[w].pc = "lease"
    /\ IF workers[w].leases = {}
       THEN workers' = [workers EXCEPT ![w] = Idle]
       ELSE \E l \in {x \in workers[w].leases : \A z \in workers[w].leases : x <= z} :
                workers' = [workers EXCEPT ![w].pc = "payment",
                                           ![w].leases = @ \ {l},
                                           ![w].overdue = OverduePayments(l)]
    /\ UNCHANGED <<today, payments, late_fees, reminders, result, calc, reports>>

\* The next payment: the existing fee is looked up and the fee calculated
check_existing_fee(w) ==
    /\ workers[w].pc = "payment"
    /\ IF workers[w].overdue = {}
       THEN workers' = [workers EXCEPT ![w].pc = "lease"]
       ELSE \E p \in {x \in workers[w].overdue : \A z \in workers[w].overdue : x <= z} :
                IF ~ExistingFee(p) /\ FeeApplies(p)
                THEN workers' = [workers EXCEPT ![w].pc = "create",
                                                ![w].overdue = @ \ {p},
                                                ![w].payment = p]
                ELSE workers' = [workers EXCEPT ![w].overdue = @ \ {p}]
    /\ UNCHANGED <<today, payments, late_fees, reminders, result, calc, reports>>

\* LateFee.objects.create for the payment that passed the check
create_late_fee(w) ==
    /\ workers[w].pc = "create"
    /\ late_fees' = late_fees \cup {NewLateFee(workers[w].payment, late_fees)}
    /\ workers' = [workers EXCEPT ![w].pc = "payment", ![w].payment = 0]
    /\ UNCHANGED <<today, payments, reminders, result, calc, reports>>

NextRace ==
    \/ \E w \in Workers, l \in LeaseIds \cup {0}, f \in BOOLEAN : apply_begin(w, l, f)
    \/ \E w \in Workers : next_lease(w)
    \/ \E w \in Workers : check_existing_fee(w)
    \/ \E w \in Workers : create_late_fee(w)

SpecRace == InitRace /\ [][NextRace]_vars

\* C3 as stated: when two workers run apply_late_fees at once over the same
\* overdue payment, whatever the order of their checks and creates, the check
\* for an existing LateFee keeps the payment at no more than one LateFee row.
C3_OneLateFeeUnderRace ==
    \A p \in PaymentIds : Cardinality({f \in late_fees : f.payment = p}) <= 1

(***************************************************************************)
(* calculate_late_fee and the collection rate on their own (SpecCalc): the *)
(* Payment table holds one or two rows of any amount, status and overdue   *)
(* period, and a fee or a rate is calculated from it.                      *)
(***************************************************************************)
\* Payment amounts in cents: 0.01, 120.00, 1000.00
CalcAmounts == {1, 12000, 100000}

\* A rent payment of lease 1 whose due date passed days ago
CalcPayment(amount, status, days) ==
    [lease |-> 1,
     amount |-> amount,
     payment_type |-> "rent",
     payment_date |-> FirstDay - days,
     due_date |-> FirstDay - days,
     status |-> status]

\* custom_rules arguments: none, and overrides of the defaults
CustomRules ==
    <<EmptyDict,
      [grace_period_days |-> 7],
      [use_flat_fee |-> FALSE],
      [compound_daily |-> TRUE],
      [compound_daily |-> TRUE, daily_fee |-> 2500, grace_period_days |-> 3],
      [use_flat_fee |-> FALSE, compound_daily |-> TRUE, max_fee_percentage |-> 5],
      [flat_fee |-> 0]>>

\* The (year, month) arguments of a monthly report
ReportMonths == {<<2025, 1>>, <<2025, 2>>, <<2025, 3>>}

\* start_date and end_date of the report of a month
ReportPeriod(year, month) ==
    [start_date |-> Ordinal(year, month, 1),
     end_date |-> IF month = 12
                  THEN Ordinal(year + 1, 1, 1) - 1
                  ELSE Ordinal(year, month + 1, 1) - 1]

InitCalc ==
    /\ today = FirstDay
    /\ \E a \in CalcAmounts, st \in {"pending", "completed"}, d \in 0..MaxDaysOverdue :
          \/ payments = <<CalcPayment(a, st, d)>>
          \/ \E b \in CalcAmounts, su \in {"pending", "completed"} :
                payments = <<CalcPayment(a, st, d), CalcPayment(b, su, 1)>>
    /\ late_fees = {}
    /\ reminders = {}
    /\ result = NoResult
    /\ workers = NoWorkers
    /\ calc = NoResult
    /\ reports = <<>>

\* calculate_late_fee(payment_id, custom_rules) with the i-th rules
CalcLateFee(payment_id, i) ==
    /\ calc' = [op |-> "calculate_late_fee",
                payment_id |-> payment_id,
                rules |-> i,
                out |-> calculate_late_fee(payment_id, CustomRules[i])]
    /\ UNCHANGED <<today, payments, late_fees, reminders, result, workers, reports>>

\* The collection rate of the payments due in a month, as
\* _analyze_monthly_payments has it calculated
CalcCollectionRate(year, month) ==
    \E period \in {ReportPeriod(year, month)} :
    \E all_payments \in {PaymentsDue(period.start_date, period.end_date)} :
        /\ calc' = [op |-> "collection_rate",
                    all_payments |-> all_payments,
                    out |-> _calculate_collection_rate(all_payments,
                                                       Completed(all_payments))]
        /\ UNCHANGED <<today, payments, late_fees, reminders, result, workers, reports>>

NextCalc ==
    \/ \E p \in {1, 2, 9}, i \in DOMAIN CustomRules : CalcLateFee(p, i)
    \/ \E ym \in ReportMonths : CalcCollectionRate(ym[1], ym[2])

SpecCalc == InitCalc /\ [][NextCalc]_vars

\* The fee calculated last was for an existing payment overdue by days
CalcDays == today - payments[calc.payment_id].due_date

CalcIsFee == calc.op = "calculate_late_fee" /\ calc.payment_id \in PaymentIds

C7_FeeCap ==
    (CalcIsFee /\ "fee_amount" \in DOMAIN calc.out) =>
        LET rules == MergeRules(CustomRules[calc.rules])
            limit == payments[calc.payment_id].amount * rules.max_fee_percentage
        IN  /\ calc.out.fee_amount <= limit
            /\ "capped_at_maximum" \in DOMAIN calc.out =>
                  (calc.out.capped_at_maximum
                      <=> calc.out.base_fee + calc.out.daily_fees > limit)

\* A fee with daily fees was cut down to the limit
C7_Witness ==
    /\ CalcIsFee
    /\ "capped_at_maximum" \in DOMAIN calc.out
    /\ calc.out.capped_at_maximum
    /\ calc.out.daily_fees > 0
    /\ calc.out.fee_amount = calc.out.max_fee_limit

\* C8: the collection rate of a period lies between 0 and 100 (here in
\* hundredths of a percent), and is 0 when no payment is due in the period.
C8_CollectionRate ==
    calc.op = "collection_rate" =>
        /\ 0 <= calc.out /\ calc.out <= 100 * 100
        /\ calc.all_payments = {} => calc.out = 0

\* A rate was calculated for a month with a completed and a pending payment
C8_Witness ==
    /\ calc.op = "collection_rate"
    /\ 0 < calc.out /\ calc.out < 100 * 100
    /\ Cardinality(calc.all_payments) = 2

(***************************************************************************)
(* apply_late_fees for a tenant with a payment history (SpecHistory): the  *)
(* operations of Spec on a ledger where lease 1 has its rent of February   *)
(* pending and one or two rents paid in January, each on the due date or   *)
(* nine days after it.                                                     *)
(***************************************************************************)
\* A rent of lease 1 due on 2025-01-01 and paid days_late days later
HistoryPayment(days_late) ==
    [lease |-> 1,
     amount |-> Lease(1).monthly_rent,
     payment_type |-> "rent",
     payment_date |-> Ordinal(2025, 1, 1) + days_late,
     due_date |-> Ordinal(2025, 1, 1),
     status |-> "completed"]

HistoryPayments ==
    {<<UpcomingPayment(1, Ordinal(2025, 2, 1)), HistoryPayment(a)>> : a \in {0, 9}}
    \cup {<<UpcomingPayment(1, Ordinal(2025, 2, 1)), HistoryPayment(a), HistoryPayment(b)>> :
             a \in {0, 9}, b \in {0, 9}}

InitHistory ==
    /\ today = FirstDay
    /\ payments \in HistoryPayments
    /\ late_fees = {}
    /\ reminders = {}
    /\ reports = <<>>
    /\ result = NoResult
    /\ workers = NoWorkers
    /\ calc = NoResult

SpecHistory == InitHistory /\ [][Next]_vars

\* The payments of tenant t dated in the last 12 months (360 days)
HistoryWindow(t) ==
    {p \in PaymentIds : /\ Lease(payments[p].lease).tenant = t
                        /\ payments[p].payment_date >= today - 12 * 30}

\* Those of them paid after their due date
LateInWindow(t) == {p \in HistoryWindow(t) : payments[p].payment_date > payments[p].due_date}

\* The share of payments in the window paid by their due date is above n percent
ReliabilityAbove(t, n) ==
    /\ HistoryWindow(t) # {}
    /\ Cardinality(HistoryWindow(t) \ LateInWindow(t)) * 100 > n * Cardinality(HistoryWindow(t))

\* The three conditions of the automatic waiver, for payment p
ShouldWaive(p) ==
    LET t == Lease(payments[p].lease).tenant
    IN  \/ ReliabilityAbove(t, 95)
        \/ Cardinality(LateInWindow(t)) <= 1
        \/ (today - payments[p].due_date <= 3 /\ ReliabilityAbove(t, 85))

\* C11 as stated: the LateFee apply_late_fees records for a payment is waived
\* exactly when the tenant's 12-month reliability is above 95, or the tenant
\* has at most one late payment in that window, or the payment is at most 3
\* days overdue with a reliability above 85; otherwise it is applied.  A row
\* is recorded in both cases.
C11_AutoWaiver ==
    result.op = "apply_late_fees" =>
        \A p \in result.created :
            /\ FeesOf(p) # {}
            /\ \A f \in FeesOf(p) :
                  f.status = IF ShouldWaive(p) THEN "waived" ELSE "applied"

(***************************************************************************)
(* More properties of the operations taken one after the other (Spec).     *)
(***************************************************************************)
\* C12 as stated: send_due_reminders processes every reminder that is pending
\* and scheduled for now or earlier, so that right after a call none is left
\* pending and due: each one is sent, with a sent_date, or failed.
C12_DueRemindersProcessed ==
    result.op = "send_due_reminders" => DueReminders = {}

(***************************************************************************)
(* OverdueDetector, the balance reads of PaymentTracker and the report     *)
(* operations of ReportGenerator.                                          *)
(***************************************************************************)
\* The failure dict of an "except Exception" handler
Failure(error) == [success |-> FALSE, error |-> error]

\* Tenant.objects.filter(is_active=True, leases__status='active').distinct()
ActiveTenants == {t \in TenantIds : \E l \in ActiveLeases : Lease(l).tenant = t}

\* Payment.objects.filter(status='pending', due_date__lt=today)
OverdueNow ==
    {p \in PaymentIds : payments[p].status = "pending" /\ payments[p].due_date < today}

\* More than 7 days overdue and no reminder of the payment sent in the last 7 days
_requires_escalation(p) ==
    LET recent_reminders == {r \in reminders : /\ r.payment = p
                                               /\ r.status = "sent"
                                               /\ r.sent_date >= today - 7}
    IN  today - payments[p].due_date > 7 /\ recent_reminders = {}

\* The query carries select_related('lease__tenant', 'lease__property'): the
\* loop over it evaluates the query, which raises FieldError for the relation
\* Lease does not have, whether or not a payment is overdue.  The analysis
\* returned otherwise has no 'success' key.
detect_overdue_payments ==
    IF "property" \notin LeaseRelations
    THEN Failure("Overdue detection failed")
    ELSE [total_overdue_payments |-> Cardinality(OverdueNow),
          total_overdue_amount |-> TotalAmount(OverdueNow),
          overdue_payments |-> OverdueNow,
          escalation_required |-> {p \in OverdueNow : _requires_escalation(p)}]

\* The summary over the tenants whose balance did not fail
\* (balance_info.get('success', True)); collection_rate in tenths of a percent
get_all_balances ==
    TheOnly({
        TheOnly({
            [total_tenants |-> Cardinality(ActiveTenants),
             total_monthly_rent |-> totals.monthly_rent,
             total_outstanding |-> totals.outstanding,
             total_late_fees |-> totals.late_fees,
             current_tenants |->
                 Cardinality({t \in DOMAIN ok : ok[t].payment_status = "current"}),
             overdue_tenants |->
                 Cardinality({t \in DOMAIN ok : ok[t].payment_status # "current"}),
             collection_rate |->
                 IF totals.monthly_rent > 0
                 THEN RoundHalfEven((totals.monthly_rent - totals.outstanding) * 1000,
                                    totals.monthly_rent)
                 ELSE 0] :
            totals \in {[monthly_rent |->
                             SumOver({[tenant |-> t, v |-> ok[t].monthly_rent] :
                                         t \in DOMAIN ok}, "v"),
                         outstanding |->
                             SumOver({[tenant |-> t, v |-> ok[t].outstanding_amount] :
                                         t \in DOMAIN ok}, "v"),
                         late_fees |->
                             SumOver({[tenant |-> t, v |-> ok[t].late_fees] :
                                         t \in DOMAIN ok}, "v")]}}) :
        ok \in {[t \in {u \in ActiveTenants :
                            Get(calculate_tenant_balance(u), "success", TRUE)} |->
                    calculate_tenant_balance(t)]}})

\* The keys whose value is a Decimal in the dicts of calculate_tenant_balance,
\* get_all_balances and detect_overdue_payments
DecimalKeys ==
    {"total_balance", "monthly_rent", "late_fees", "payments_made", "outstanding_amount",
     "total_monthly_rent", "total_outstanding", "total_late_fees", "total_overdue_amount"}

\* json.dumps of the JSONField report_data raises TypeError on a Decimal
HasDecimal(d) == DOMAIN d \cap DecimalKeys # {}

\* The names report_generator.py binds at module level
ReportGeneratorNames ==
    {"logging", "datetime", "date", "timedelta", "Dict", "List", "Optional", "timezone",
     "Sum", "Count", "Avg", "Q", "Decimal", "json", "Tenant", "Lease", "Payment", "LateFee",
     "FinancialReport", "PaymentTracker", "OverdueDetector", "logger", "ReportGenerator"}

\* The methods class ReportGenerator defines
ReportGeneratorMethods ==
    {"generate_monthly_summary", "generate_payment_status_report", "generate_overdue_report",
     "generate_annual_summary", "get_report_history", "_calculate_monthly_revenue",
     "_analyze_monthly_payments", "_analyze_monthly_overdue", "_generate_tenant_summary",
     "_analyze_property_performance", "_calculate_late_fees", "_calculate_key_metrics",
     "_generate_recommendations", "_calculate_collection_rate",
     "_calculate_average_days_overdue", "_calculate_payment_efficiency",
     "_get_overall_payment_status", "_get_tenant_payment_status",
     "_calculate_collection_metrics", "_get_upcoming_payments", "_analyze_payment_trends"}

\* Payment.objects.filter(payment_date__range=[start_date, end_date], status='completed')
_calculate_monthly_revenue(start_date, end_date) ==
    LET paid == {p \in PaymentIds : /\ payments[p].status = "completed"
                                    /\ start_date <= payments[p].payment_date
                                    /\ payments[p].payment_date <= end_date}
    IN  [total_revenue |-> TotalAmount(paid), payment_count |-> Cardinality(paid)]

\* The dict is built key by key; the value of 'on_time_payments' reads
\* models.F, and the module binds no name models: NameError
_analyze_monthly_payments(start_date, end_date) ==
    LET all_payments == PaymentsDue(start_date, end_date)
        completed_payments == Completed(all_payments)
    IN  IF "models" \notin ReportGeneratorNames
        THEN Raise("NameError")
        ELSE [total_due |-> TotalAmount(all_payments),
              total_collected |-> TotalAmount(completed_payments),
              collection_rate |-> _calculate_collection_rate(all_payments, completed_payments),
              on_time_payments |->
                  Cardinality({p \in completed_payments :
                                  payments[p].payment_date <= payments[p].due_date}),
              late_payments |->
                  Cardinality({p \in completed_payments :
                                  payments[p].payment_date > payments[p].due_date}),
              pending_payments |->
                  Cardinality({p \in all_payments : payments[p].status = "pending"})]

_analyze_monthly_overdue(start_date, end_date) ==
    LET overdue_payments == PaymentsDue(start_date, end_date) \cap OverdueNow
    IN  [overdue_count |-> Cardinality(overdue_payments),
         overdue_amount |-> TotalAmount(overdue_payments)]

\* For each property with an active lease, Payment.objects.filter(lease__property=...)
\* names the relation Lease does not have: FieldError
_analyze_property_performance(start_date, end_date) ==
    IF ActiveLeases # {} /\ "property" \notin LeaseRelations
    THEN Raise("FieldError")
    ELSE [total_properties |-> Cardinality(ActiveLeases)]

\* The pending payments due in the next 30 days; the list built from them
\* reads p.lease.property.title for the first one
_get_upcoming_payments ==
    LET upcoming == {p \in PaymentIds : /\ payments[p].status = "pending"
                                        /\ payments[p].due_date >= today
                                        /\ payments[p].due_date <= today + 30}
    IN  IF upcoming # {} /\ LeasePropertyRaises
        THEN Raise("AttributeError")
        ELSE [upcoming_payments |-> upcoming]

\* FinancialReport.objects.create(...), with the dict the operation returns:
\* report_data with the id of the new row, and no 'success' key
ReportCreated(rows, report_type, start_date, end_date, report_data) ==
    [rows |-> <<[report_type |-> report_type,
                 start_date |-> start_date,
                 end_date |-> end_date,
                 report_data |-> report_data]>>,
     out |-> [report_id |-> Len(rows) + 1, report_data |-> report_data]]

\* An exception anywhere in the try block: no row, the failure dict alone
ReportFailed(error) == [rows |-> <<>>, out |-> Failure(error)]

\* year and month 0: not given ("year or today.year").  The sections are
\* evaluated in the order of the dict literal.
MonthlySummary(year, month) ==
    LET report_year == IF year = 0 THEN YearOf(today) ELSE year
        report_month == IF month = 0 THEN MonthOf(today) ELSE month
    IN  IF ~ValidDate(report_year, report_month, 1)
        THEN ReportFailed("Monthly report generation failed")
        ELSE TheOnly({
            (LET revenue_summary == _calculate_monthly_revenue(period.start_date, period.end_date)
                 payment_analysis == _analyze_monthly_payments(period.start_date, period.end_date)
                 overdue_analysis == _analyze_monthly_overdue(period.start_date, period.end_date)
                 property_performance ==
                     _analyze_property_performance(period.start_date, period.end_date)
             IN  IF Raised(payment_analysis) \/ Raised(property_performance)
                 THEN ReportFailed("Monthly report generation failed")
                 ELSE ReportCreated(reports, "monthly_summary",
                                    period.start_date, period.end_date,
                                    [revenue_summary |-> revenue_summary,
                                     payment_analysis |-> payment_analysis,
                                     overdue_analysis |-> overdue_analysis,
                                     property_performance |-> property_performance])) :
            period \in {ReportPeriod(report_year, report_month)}})

\* overall_status is the summary of get_all_balances, which holds Decimal
\* totals; the tenant balances that did not fail hold Decimals as well
PaymentStatusReport ==
    TheOnly({
        (LET tenant_payment_status == {calculate_tenant_balance(t) : t \in TenantIds}
             overdue_summary == detect_overdue_payments
             upcoming_payments == _get_upcoming_payments
         IN  IF Raised(upcoming_payments)
             THEN ReportFailed("Payment status report generation failed")
             ELSE IF \/ HasDecimal(overall_status)
                     \/ HasDecimal(overdue_summary)
                     \/ \E b \in tenant_payment_status : HasDecimal(b)
             THEN ReportFailed("Payment status report generation failed")
             ELSE ReportCreated(reports, "payment_status", today, today,
                                [overall_status |-> overall_status,
                                 overdue_summary |-> overdue_summary])) :
        overall_status \in {get_all_balances}})

\* After the overdue analysis the report calls self._generate_aging_analysis(),
\* a method the class does not define: AttributeError
OverdueReport ==
    LET overdue_analysis == detect_overdue_payments
    IN  IF "_generate_aging_analysis" \notin ReportGeneratorMethods
        THEN ReportFailed("Overdue report generation failed")
        ELSE ReportCreated(reports, "overdue_report", today, today,
                           [overdue_summary |-> overdue_analysis])

\* The first section calls self._calculate_annual_revenue(report_year), a
\* method the class does not define: AttributeError
AnnualSummary(year) ==
    LET report_year == IF year = 0 THEN YearOf(today) ELSE year
    IN  IF "_calculate_annual_revenue" \notin ReportGeneratorMethods
        THEN ReportFailed("Annual report generation failed")
        ELSE ReportCreated(reports, "annual_summary",
                           Ordinal(report_year, 1, 1), Ordinal(report_year, 12, 31),
                           [year |-> report_year])

(***************************************************************************)
(* The operations of Spec together with the reads and the reports          *)
(* (SpecReport).  The ledger at the start is one of Spec, or one where no   *)
(* payment is overdue: lease 1's rent of March and lease 2's of February.  *)
(***************************************************************************)
ReportPayments ==
    SeedPayments
    \cup {<<UpcomingPayment(1, Ordinal(2025, 3, 1)), UpcomingPayment(2, Ordinal(2025, 2, 8))>>}

InitReport ==
    /\ today = FirstDay
    /\ payments \in ReportPayments
    /\ late_fees \in SeedFees
    /\ reminders \in SeedReminders(payments)
    /\ reports = <<>>
    /\ result = NoResult
    /\ workers = NoWorkers
    /\ calc = NoResult

\* tenant_id "": none given, which the request handler refuses
get_tenant_balance(caller, tenant_id) ==
    /\ result' = [op |-> "calculate_tenant_balance",
                  tenant_id |-> tenant_id,
                  out |-> IF tenant_id = ""
                          THEN Failure("tenant_id is required")
                          ELSE calculate_tenant_balance(tenant_id)]
    /\ UNCHANGED <<today, payments, late_fees, reminders, reports, workers, calc>>

detect_overdue(caller) ==
    /\ result' = [op |-> "detect_overdue_payments", out |-> detect_overdue_payments]
    /\ UNCHANGED <<today, payments, late_fees, reminders, reports, workers, calc>>

\* The (year, month) of a monthly report: three months, none given, no such month
ReportArgs == ReportMonths \cup {<<0, 0>>, <<2025, 13>>}

generate_monthly_summary(caller, year, month) ==
    /\ Len(reports) < MaxReports
    /\ \E run \in {MonthlySummary(year, month)} :
          /\ reports' = reports \o run.rows
          /\ result' = [op |-> "generate_monthly_summary",
                        year |-> year, month |-> month, out |-> run.out]
    /\ UNCHANGED <<today, payments, late_fees, reminders, workers, calc>>

generate_payment_status_report(caller) ==
    /\ Len(reports) < MaxReports
    /\ \E run \in {PaymentStatusReport} :
          /\ reports' = reports \o run.rows
          /\ result' = [op |-> "generate_payment_status_report", out |-> run.out]
    /\ UNCHANGED <<today, payments, late_fees, reminders, workers, calc>>

generate_overdue_report(caller) ==
    /\ Len(reports) < MaxReports
    /\ \E run \in {OverdueReport} :
          /\ reports' = reports \o run.rows
          /\ result' = [op |-> "generate_overdue_report", out |-> run.out]
    /\ UNCHANGED <<today, payments, late_fees, reminders, workers, calc>>

generate_annual_summary(caller, year) ==
    /\ Len(reports) < MaxReports
    /\ \E run \in {AnnualSummary(year)} :
          /\ reports' = reports \o run.rows
          /\ result' = [op |-> "generate_annual_summary", year |-> year, out |-> run.out]
    /\ UNCHANGED <<today, payments, late_fees, reminders, workers, calc>>

NextReport ==
    \/ Next
    \/ \E c \in Businesses, t \in TenantIds \cup {"T9", ""} : get_tenant_balance(c, t)
    \/ \E c \in Businesses : detect_overdue(c)
    \/ \E c \in Businesses, ym \in ReportArgs : generate_monthly_summary(c, ym[1], ym[2])
    \/ \E c \in Businesses : generate_payment_status_report(c)
    \/ \E c \in Businesses : generate_overdue_report(c)
    \/ \E c \in Businesses, y \in {0, 2025} : generate_annual_summary(c, y)

SpecReport == InitReport /\ [][NextReport]_vars

\* The dict the last operation returned
Returned == IF "out" \in DOMAIN result THEN result.out ELSE result

PublicOperations ==
    {"track_payment", "calculate_tenant_balance", "detect_overdue_payments",
     "apply_late_fees", "generate_monthly_summary", "schedule_payment_reminders",
     "send_due_reminders", "waive_late_fee"}

\* C13 as stated: what a public operation returns carries a success boolean,
\* true with data or false with an error string.
C13_StructuredResult ==
    result.op \in PublicOperations =>
        /\ "success" \in DOMAIN Returned
        /\ Returned.success \in BOOLEAN
        /\ ~Returned.success => "error" \in DOMAIN Returned

\* The monthly report just asked for is one of an existing month
ValidPeriod ==
    ValidDate(IF result.year = 0 THEN YearOf(today) ELSE result.year,
              IF result.month = 0 THEN MonthOf(today) ELSE result.month, 1)

\* C14 as stated: when a sub-calculation of generate_monthly_summary fails, the
\* dict returned has the error field together with the sections calculated
\* with success, the revenue summary being the first of them.
C14_PartialReport ==
    (/\ result.op = "generate_monthly_summary"
     /\ ValidPeriod
     /\ "error" \in DOMAIN result.out) =>
        "revenue_summary" \in DOMAIN result.out

GenerateOperations ==
    {"generate_monthly_summary", "generate_payment_status_report",
     "generate_overdue_report", "generate_annual_summary"}

C18_PureReads ==
    [][/\ result'.op \in {"calculate_tenant_balance", "detect_overdue_payments"} =>
              UNCHANGED <<payments, late_fees, reminders, reports>>
       /\ (result'.op = "detect_overdue_payments" /\ OverdueNow = {}) =>
              /\ "error" \notin DOMAIN result'.out
              /\ result'.out.total_overdue_payments = 0]_vars

(***************************************************************************)
(* apply_late_fees when the database refuses an insert (SpecFault).  The   *)
(* LateFee.objects.create of a payment in failing raises; the exception    *)
(* leaves the loop over the payments of that lease and becomes the failure *)
(* dict of the lease.  Rows recorded before it stay: no transaction spans  *)
(* the loop.                                                               *)
(***************************************************************************)
RECURSIVE ProcessOverdue(_, _, _)
\* The loop over the overdue payments of a lease, in the order of the query
\* (Meta.ordering '-due_date'; rows of the same date by id)
ProcessOverdue(todo, failing, acc) ==
    IF todo = {} THEN acc
    ELSE LET p == CHOOSE x \in todo : \A z \in todo :
                      \/ payments[x].due_date > payments[z].due_date
                      \/ (payments[x].due_date = payments[z].due_date /\ x <= z)
         IN  IF ExistingFee(p) \/ ~FeeApplies(p)
             THEN ProcessOverdue(todo \ {p}, failing, acc)
             ELSE IF p \in failing
             THEN [acc EXCEPT !.success = FALSE]
             ELSE TheOnly({
                 ProcessOverdue(todo \ {p}, failing,
                     IF fee.status = "waived"
                     THEN [acc EXCEPT !.rows = @ \cup {fee}, !.fees_waived = @ + 1]
                     ELSE [acc EXCEPT !.rows = @ \cup {fee}, !.fees_applied = @ + 1,
                                      !.total_fees_amount =
                                          @ + calculate_late_fee(p, EmptyDict).fee_amount]) :
                 fee \in {NewLateFee(p, late_fees)}})

\* The per-lease result, with the LateFee rows the run recorded (rows)
_process_lease_late_fees(l, force_apply, failing) ==
    TheOnly({
        IF run.success
        THEN [success |-> TRUE, lease_id |-> l,
              overdue_payments |-> Cardinality(OverduePayments(l)),
              fees_applied |-> run.fees_applied,
              fees_waived |-> run.fees_waived,
              total_fees_amount |-> run.total_fees_amount,
              rows |-> run.rows]
        ELSE [success |-> FALSE, lease_id |-> l, error |-> "IntegrityError",
              rows |-> run.rows] :
        run \in {ProcessOverdue(OverduePayments(l), failing,
                                [success |-> TRUE, rows |-> {}, fees_applied |-> 0,
                                 fees_waived |-> 0, total_fees_amount |-> 0])}})

\* Variant of LateFeeSummary: the leases that failed are counted as processed
LateFeeSummaryAllLeases(details) ==
    LET ok == {d \in details : d.success}
    IN  [processed_leases |-> Cardinality(details),
         fees_applied |-> SumOver(ok, "fees_applied"),
         fees_waived |-> SumOver(ok, "fees_waived"),
         total_fees_amount |-> SumOver(ok, "total_fees_amount")]

\* results, summed over the per-lease results with success (lines 69-86)
LateFeeSummary(details) ==
    LET ok == {d \in details : d.success}
    IN  [processed_leases |-> Cardinality(ok),
         fees_applied |-> SumOver(ok, "fees_applied"),
         fees_waived |-> SumOver(ok, "fees_waived"),
         total_fees_amount |-> SumOver(ok, "total_fees_amount")]

\*   processing_details : the per-lease results
\*   recorded           : the LateFee rows this call recorded
apply_late_fees_db(caller, lease_id, force_apply, failing) ==
    \E details \in {{_process_lease_late_fees(l, force_apply, failing) :
                        l \in LeasesToProcess(lease_id)}} :
    \E summary \in {LateFeeSummary(details)} :
        /\ late_fees' = late_fees \cup UNION {d.rows : d \in details}
        /\ result' = [op |-> "apply_late_fees", success |-> TRUE,
                      lease_id |-> lease_id,
                      summary |-> summary,
                      processing_details |-> details,
                      recorded |-> UNION {d.rows : d \in details}]
        /\ UNCHANGED <<today, payments, reminders, reports, workers, calc>>

NextFault ==
    \/ Tick
    \/ \E c \in Businesses, l \in LeaseIds \cup {0}, f \in BOOLEAN, failing \in SUBSET OverdueNow :
          apply_late_fees_db(c, l, f, failing)
    \/ \E c \in Businesses, i \in {f.id : f \in late_fees} \cup {<<0, 0>>} :
          waive_late_fee(c, i, "goodwill", "manager")

SpecFault == Init /\ [][NextFault]_vars

\* C15: when the processing of one active lease fails, apply_late_fees still
\* returns success with one detail entry for every active lease it was asked
\* to process; processed_leases, fees_applied, fees_waived and
\* total_fees_amount count the leases that succeeded and the rows recorded
\* for them, and every lease that succeeded has had its payments past the
\* grace period charged.
C15_PartialSuccess ==
    (result.op = "apply_late_fees" /\ "processing_details" \in DOMAIN result) =>
        LET details == result.processing_details
            succeeded == {d.lease_id : d \in {e \in details : e.success}}
            counted == {f \in result.recorded : payments[f.payment].lease \in succeeded}
        IN  /\ result.success
            /\ {d.lease_id : d \in details} = LeasesToProcess(result.lease_id)
            /\ Cardinality(details) = Cardinality(LeasesToProcess(result.lease_id))
            /\ result.summary.processed_leases = Cardinality(succeeded)
            /\ result.summary.fees_applied =
                   Cardinality({f \in counted : f.status = "applied"})
            /\ result.summary.fees_waived =
                   Cardinality({f \in counted : f.status = "waived"})
            /\ result.summary.total_fees_amount =
                   100 * SumOver({f \in counted : f.status = "applied"}, "amount")
            /\ \A l \in succeeded : \A p \in OverduePayments(l) :
                   PastGrace(p) => FeesOf(p) # {}

\* One lease failed and another one was processed, with a fee recorded
C15_Witness ==
    /\ result.op = "apply_late_fees"
    /\ "processing_details" \in DOMAIN result
    /\ \E d \in result.processing_details : ~d.success
    /\ \E d \in result.processing_details : d.success /\ d.rows # {}
    /\ result.summary.processed_leases = 1

(***************************************************************************)
(* The Payment table over time (Spec)                                      *)
(***************************************************************************)
\* C17: no operation removes a Payment row or changes the due_date it was
\* created with, and a completed Payment stays completed.
C17_PaymentImmutable ==
    [][\A p \in 1..Len(payments) :
          /\ p <= Len(payments')
          /\ payments'[p].due_date = payments[p].due_date
          /\ payments[p].status = "completed" => payments'[p].status = "completed"]_vars

\* For one of the leases schedule_payment_reminders went through,
\* get_or_create found a completed Payment of the next due date
C17_Witness ==
    /\ result.op = "schedule_payment_reminders"
    /\ \E l \in LeasesToProcess(result.lease_id) :
          /\ Cardinality(UpcomingMatches(payments, l, _calculate_next_due_date(l))) = 1
          /\ \A p \in UpcomingMatches(payments, l, _calculate_next_due_date(l)) :
                payments[p].status = "completed"

C20_ForceApplyWithinGrace ==
    (result.op = "apply_late_fees" /\ result.force_apply) =>
        \A p \in result.walked :
            (/\ today - payments[p].due_date > 0
             /\ today - payments[p].due_date <= default_rules.grace_period_days)
                => FeesOf(p) # {}

(***************************************************************************)
(* The late-fee scenario (SpecScenario): lease 2 has a rent of 2000.00     *)
(* pending, due three days before the first day, and four rents of January *)
(* each paid on its due date or nine days after it.                        *)
(***************************************************************************)
\* A rent of lease 2 due on the given day of January and paid days_late days later
ScenarioHistory(due_date, days_late) ==
    [lease |-> 2,
     amount |-> Lease(2).monthly_rent,
     payment_type |-> "rent",
     payment_date |-> due_date + days_late,
     due_date |-> due_date,
     status |-> "completed"]

ScenarioPayments ==
    {<<UpcomingPayment(2, FirstDay - 3),
       ScenarioHistory(Ordinal(2025, 1, 2), a), ScenarioHistory(Ordinal(2025, 1, 9), b),
       ScenarioHistory(Ordinal(2025, 1, 16), c), ScenarioHistory(Ordinal(2025, 1, 23), d)>> :
        a \in {0, 9}, b \in {0, 9}, c \in {0, 9}, d \in {0, 9}}

InitScenario ==
    /\ today = FirstDay
    /\ payments \in ScenarioPayments
    /\ late_fees = {}
    /\ reminders = {}
    /\ reports = <<>>
    /\ result = NoResult
    /\ workers = NoWorkers
    /\ calc = NoResult

NextScenario ==
    \/ Tick
    \/ \E c \in Businesses, l \in LeaseIds \cup {0}, f \in BOOLEAN : apply_late_fees(c, l, f)
    \/ \E c \in Businesses, i \in {f.id : f \in late_fees} \cup {<<0, 0>>} :
          waive_late_fee(c, i, "goodwill", "manager")

SpecScenario == InitScenario /\ [][NextScenario]_vars

\* C21 as stated: the pending payment of 2000.00 is three days overdue and the
\* tenant has three late payments among five (a reliability of 40%); after
\* apply_late_fees has gone through it, it has a LateFee of 100.00 (5% of the
\* amount) with status applied.
C21_ScenarioFeeApplied ==
    (/\ result.op = "apply_late_fees"
     /\ 1 \in result.walked
     /\ payments[1].amount = 200000
     /\ today - payments[1].due_date = 3
     /\ Cardinality(HistoryWindow("T2")) = 5
     /\ Cardinality(LateInWindow("T2")) = 3)
        => \E f \in FeesOf(1) : f.amount = 10000 /\ f.status = "applied"

(***************************************************************************)
(* Reminders, balances and fees over time (Spec)                           *)
(***************************************************************************)
\* C22 as stated: schedule_payment_reminders leaves, for the upcoming payment
\* of every lease it went through, exactly the pending reminders it has just
\* created, one for each of the offsets 7, 3 and 1 whose date is still to
\* come; the reminders that were sent or failed are left as they were.
C22_PendingRemindersReplaced ==
    [][result'.op = "schedule_payment_reminders" =>
          /\ \A r \in reminders : r.status # "pending" => r \in reminders'
          /\ \A l \in LeasesToProcess(result'.lease_id) :
                LET due_date == _calculate_next_due_date(l)
                    upcoming == UpcomingMatches(payments', l, due_date)
                    pending == {r \in reminders' : /\ r.payment \in upcoming
                                                   /\ r.status = "pending"}
                IN  Cardinality(upcoming) = 1 =>
                        /\ pending \subseteq result'.created
                        /\ Cardinality(pending) = Cardinality(FutureOffsets(due_date))
                        /\ {r.scheduled_date : r \in pending}
                               = {due_date - d : d \in FutureOffsets(due_date)}]_vars

(***************************************************************************)
(* The date calculations on their own (SpecDates): the next rent due date  *)
(* and the months elapsed, for any day of 2025 or of the start of 2026,    *)
(* any rent due day and a lease started before or after that day.          *)
(***************************************************************************)
\* rent_due_day: "Day of month rent is due (1-31)"
MaxDueDay == 31

\* The days timezone.now() is taken from
MaxToday == 400

\* Days between the start of the lease and today (negative: not yet started)
LeaseAges == {-40, 0, 1, 30, 95, 200}

InitDates ==
    /\ today \in 1..MaxToday
    /\ payments = <<>>
    /\ late_fees = {}
    /\ reminders = {}
    /\ reports = <<>>
    /\ result = NoResult
    /\ workers = NoWorkers
    /\ calc = NoResult

CalcNextDueDate(rent_due_day) ==
    /\ calc' = [op |-> "next_due_date",
                rent_due_day |-> rent_due_day,
                out |-> NextDueDate(today, rent_due_day)]
    /\ UNCHANGED <<today, payments, late_fees, reminders, result, workers, reports>>

\* months_elapsed and expected_rent of a lease as _calculate_lease_balance has them
CalcMonthsElapsed(start_date, rent_due_day, monthly_rent) ==
    /\ start_date \in Dates
    /\ \E months_elapsed \in {MonthsElapsed(today, start_date, rent_due_day)} :
          calc' = [op |-> "months_elapsed",
                   start_date |-> start_date,
                   rent_due_day |-> rent_due_day,
                   monthly_rent |-> monthly_rent,
                   out |-> months_elapsed,
                   expected_rent |-> monthly_rent * months_elapsed]
    /\ UNCHANGED <<today, payments, late_fees, reminders, result, workers, reports>>

NextDates ==
    \/ \E d \in 1..MaxDueDay : CalcNextDueDate(d)
    \/ \E age \in LeaseAges, d \in {1, 15, MaxDueDay} :
          CalcMonthsElapsed(today - age, d, 150000)

SpecDates == InitDates /\ [][NextDates]_vars

\* The day of month a rent due on rent_due_day falls on in the month of date n
ClampedDueDay(n, rent_due_day) == Min(rent_due_day, DaysInMonth(MonthOf(n)))

\* C23 as stated: the next due date is the earliest date on or after today
\* whose day of month is rent_due_day clamped to the length of its month; when
\* rent_due_day exceeds the length of the current month it is the last day of
\* the current month.
C23_NextDueDate ==
    calc.op = "next_due_date" =>
        /\ calc.out >= today
        /\ DayOf(calc.out) = ClampedDueDay(calc.out, calc.rent_due_day)
        /\ \A n \in today..calc.out :
              DayOf(n) = ClampedDueDay(n, calc.rent_due_day) => n = calc.out
        /\ calc.rent_due_day > DaysInMonth(MonthOf(today)) =>
              /\ MonthOf(calc.out) = MonthOf(today)
              /\ DayOf(calc.out) = DaysInMonth(MonthOf(today))

\* C24 as stated: months_elapsed is the number of calendar months from the
\* month of the lease start to the month of today, plus 1 from the rent due
\* day of the month on, and never negative; expected_rent is monthly_rent
\* times months_elapsed; a lease with rent_due_day 1 started 95 days ago has
\* months_elapsed 4 whatever the day.
C24_MonthsElapsed ==
    calc.op = "months_elapsed" =>
        LET months == (YearOf(today) - YearOf(calc.start_date)) * 12
                      + (MonthOf(today) - MonthOf(calc.start_date))
            due == IF DayOf(today) >= calc.rent_due_day THEN 1 ELSE 0
        IN  /\ calc.out >= 0
            /\ months + due >= 0 => calc.out = months + due
            /\ calc.expected_rent = calc.monthly_rent * calc.out
            /\ (today - calc.start_date = 95 /\ calc.rent_due_day = 1) => calc.out = 4

\* C24 amended: the same, except that a lease with rent_due_day 1 started 95
\* days ago has months_elapsed 4 or 5: one more than the number of times the
\* month has changed in the 95 days, which is 3 or 4.
C24_MonthsElapsedByCalendar ==
    calc.op = "months_elapsed" =>
        LET months == (YearOf(today) - YearOf(calc.start_date)) * 12
                      + (MonthOf(today) - MonthOf(calc.start_date))
            due == IF DayOf(today) >= calc.rent_due_day THEN 1 ELSE 0
        IN  /\ calc.out >= 0
            /\ months + due >= 0 => calc.out = months + due
            /\ calc.expected_rent = calc.monthly_rent * calc.out
            /\ (today - calc.start_date = 95 /\ calc.rent_due_day = 1) =>
                  /\ months \in {3, 4}
                  /\ calc.out = months + 1

\* A lease with rent_due_day 1 started 95 days ago, on the 26th of January or
\* later in the month, has 5 months elapsed
C24_Witness ==
    /\ calc.op = "months_elapsed"
    /\ today - calc.start_date = 95
    /\ calc.rent_due_day = 1
    /\ calc.out = 5
    /\ calc.expected_rent = 5 * calc.monthly_rent

(***************************************************************************)
(* The balance and the overdue report of a tenant (SpecReport)             *)
(***************************************************************************)
\* C25 as stated: the payment_status calculate_tenant_balance returns for a
\* tenant is current when the outstanding balance of the tenant's active
\* leases is at most 0; otherwise overdue_with_fees when a late fee exists on
\* one of these leases, and overdue when none does.
C25_PaymentStatus ==
    (result.op = "calculate_tenant_balance" /\ result.tenant_id \in TenantIds) =>
        LET leases == {l \in ActiveLeases : Lease(l).tenant = result.tenant_id}
            outstanding == SumOver({LeaseTotals(l) : l \in leases}, "outstanding_balance")
            fees == {f \in late_fees : payments[f.payment].lease \in leases}
        IN  Get(result.out, "payment_status", "") =
                IF outstanding <= 0 THEN "current"
                ELSE IF fees # {} THEN "overdue_with_fees"
                ELSE "overdue"

\* C26 as stated: the report of detect_overdue_payments lists in
\* escalation_required exactly the overdue payments that are more than 7 days
\* overdue and have no reminder of their own with status sent and a sent_date
\* within the last 7 days.
C26_EscalationRequired ==
    result.op = "detect_overdue_payments" =>
        Get(result.out, "escalation_required", {}) =
            {p \in OverdueNow :
                /\ today - payments[p].due_date > 7
                /\ ~\E r \in reminders : /\ r.payment = p
                                         /\ r.status = "sent"
                                         /\ r.sent_date >= today - 7}

(***************************************************************************)
(* Rows over time (Spec)                                                   *)
(***************************************************************************)
\* The completed payments of the same lease and due date as payment p
CompletedTwins(p) ==
    {q \in PaymentIds : /\ payments[q].lease = payments[p].lease
                        /\ payments[q].due_date = payments[p].due_date
                        /\ payments[q].status = "completed"}

FeeDate(f) == payments[f.payment].due_date + f.days_overdue

\* LateFee.objects.filter(status='applied', fee_date__gte=today - 3 days)
\* without a sent late_fee reminder of the payment
RecentFees ==
    {f \in late_fees :
        /\ f.status = "applied"
        /\ FeeDate(f) >= today - 3
        /\ ~\E r \in reminders : /\ r.payment = f.payment
                                 /\ r.reminder_type = "late_fee"
                                 /\ r.status = "sent"}

RECURSIVE LateFeeNotices(_, _)
\* One PaymentReminder per fee, recorded pending and then saved as sent
LateFeeNotices(rows, fees) ==
    IF fees = {} THEN rows
    ELSE LET f == CHOOSE x \in fees : TRUE
         IN  LateFeeNotices(rows \cup {[id |-> NextReminderId(rows),
                                        payment |-> f.payment,
                                        reminder_type |-> "late_fee",
                                        scheduled_date |-> today,
                                        status |-> "sent",
                                        sent_date |-> today]},
                            fees \ {f})

\* The query selects 'payment__lease__property': the loop over it raises
\* FieldError, caught as the failure result.  With the relation, each notice
\* reads lease.property.title for its subject.
send_late_fee_notices(caller) ==
    /\ UNCHANGED <<today, payments, late_fees, workers, calc, reports>>
    /\ IF "property" \notin LeaseRelations
       THEN /\ result' = [op |-> "send_late_fee_notices", success |-> FALSE,
                          error |-> "Late fee notice sending failed"]
            /\ UNCHANGED reminders
       ELSE /\ reminders' = LateFeeNotices(reminders, RecentFees)
            /\ result' = [op |-> "send_late_fee_notices", success |-> TRUE,
                          notices_sent |-> Cardinality(RecentFees),
                          notices_failed |-> 0]

NextNotices ==
    \/ Next
    \/ \E c \in Businesses : send_late_fee_notices(c)

SpecNotices == Init /\ [][NextNotices]_vars

\* C28: no step removes a LateFee row or changes its payment, amount or
\* days_overdue, and a waived LateFee stays waived.
C28_WaivedIsTerminal ==
    [][\A f \in late_fees :
          /\ Cardinality({g \in late_fees' : g.id = f.id}) = 1
          /\ \A g \in late_fees' :
                g.id = f.id =>
                    /\ g.payment = f.payment
                    /\ g.amount = f.amount
                    /\ g.days_overdue = f.days_overdue
                    /\ f.status = "waived" => g.status = "waived"]_vars

\* waive_late_fee was called on a fee that was already waived, and the fee
\* is as it was
C28_Witness ==
    /\ result.op = "waive_late_fee"
    /\ ~result.success
    /\ result.was = "waived"
    /\ \E f \in late_fees : /\ f.id = result.late_fee_id
                            /\ f.status = "waived"
                            /\ f.amount > 0

(***************************************************************************)
(* send_due_reminders run by two workers at once (SpecSend).  A worker is  *)
(*   idle  : between two calls                                             *)
(*   query : the queryset of the due reminders is built, not yet evaluated *)
(*   loop  : in the loop over the reminders the query returned             *)
(* The for statement evaluates the query once; the rows it returned are    *)
(* held in memory, and no lock or transaction spans the loop.              *)
(*   due        : the reminders still to go through                        *)
(*   delivered  : the reminders handed to _send_email_reminder, in order   *)
(*   calls      : the calls that have returned                             *)
(*   overlapped : this call began while another worker was in a call       *)
(***************************************************************************)
\* Calls of send_due_reminders per worker
MaxCalls == 2

SendIdle == [pc |-> "idle", due |-> {}, delivered |-> <<>>, calls |-> 0,
             overlapped |-> FALSE]

InitSend ==
    /\ today = FirstDay
    /\ payments \in SeedPayments
    /\ late_fees = {}
    /\ reminders \in SeedReminders(payments)
    /\ result = NoResult
    /\ workers = [w \in Workers |-> SendIdle]
    /\ calc = NoResult
    /\ reports = <<>>

\* A day passes while no call is under way
TickSend ==
    /\ \A w \in Workers : workers[w].pc = "idle"
    /\ today < LastDay
    /\ today' = today + 1
    /\ UNCHANGED <<payments, late_fees, reminders, result, workers, calc, reports>>

\* send_due_reminders is entered: now is read and the queryset built
send_begin(w) ==
    /\ workers[w].pc = "idle"
    /\ workers[w].calls < MaxCalls
    /\ workers' = [workers EXCEPT
                      ![w].pc = "query",
                      ![w].overlapped = \E v \in Workers \ {w} : workers[v].pc # "idle"]
    /\ UNCHANGED <<today, payments, late_fees, reminders, result, calc, reports>>

\* The for statement: the query is evaluated, which raises FieldError for the
\* relation Lease does not have, and the call returns its failure result.
\* With the relation, the rows are fetched, each one in turn is handed to
\* _send_email_reminder and saved as sent or as failed, and the call returns
\* after the last.
send_next(w) ==
    /\ workers[w].pc \in {"query", "loop"}
    /\ UNCHANGED <<today, payments, late_fees, result, calc, reports>>
    /\ IF workers[w].pc = "query"
       THEN /\ UNCHANGED reminders
            /\ IF "property" \notin LeaseRelations
               THEN workers' = [workers EXCEPT ![w].pc = "idle", ![w].calls = @ + 1]
               ELSE workers' = [workers EXCEPT ![w].pc = "loop",
                                               ![w].due = {r.id : r \in DueReminders}]
       ELSE IF workers[w].due = {}
       THEN /\ workers' = [workers EXCEPT ![w].pc = "idle", ![w].calls = @ + 1]
            /\ UNCHANGED reminders
       ELSE \E i \in {x \in workers[w].due : \A z \in workers[w].due : x <= z} :
            \E email_sent \in BOOLEAN :
                /\ workers' = [workers EXCEPT ![w].due = @ \ {i},
                                              ![w].delivered = Append(@, i)]
                /\ reminders' =
                       {IF r.id # i THEN r
                        ELSE IF email_sent
                        THEN [r EXCEPT !.status = "sent", !.sent_date = today]
                        ELSE [r EXCEPT !.status = "failed"] : r \in reminders}

NextSend ==
    \/ TickSend
    \/ \E w \in Workers : send_begin(w)
    \/ \E w \in Workers : send_next(w)

SpecSend == InitSend /\ [][NextSend]_vars

\* The number of times worker w handed reminder i to _send_email_reminder
Deliveries(w, i) ==
    Cardinality({k \in DOMAIN workers[w].delivered : workers[w].delivered[k] = i})

====
